---------------------------- MODULE Spec2Model ----------------------------
(***************************************************************************)
(* Binance-Data-Reporter: the deposits and withdrawals pipelines           *)
(* (sign -> fetch -> normalize) and the time helpers they share.           *)
(*                                                                         *)
(* Representation of Python values                                         *)
(*   int   An epoch-millisecond integer m is kept as the mixed-radix       *)
(*         numeral [d, s, ms] with m = (d * 86400 + s) * 1000 + ms,        *)
(*         0 <= s < 86400, 0 <= ms < 1000 (d may be negative).  The        *)
(*         numeral is unique, so equality of numerals is equality of the   *)
(*         integers; values such as 1708869910000 do not fit the 32-bit    *)
(*         integers of the model checker.  A small int n is PyInt(n).      *)
(*   str   A sequence of tokens.  A literal of the source is one token;    *)
(*         a string built by formatting is one token per character.        *)
(*   exceptions  A call's result is [exc |-> name, val |-> value], exc =   *)
(*         "none" when the call returns.                                   *)
(***************************************************************************)
EXTENDS Integers, Sequences, FiniteSets, TLC

VARIABLES
    strftime_pads_year, \* the C library's strftime("%Y") zero-pads years < 1000
    t_copy,             \* which copy of the helpers is called: utils / withdrawals
    t_kind,             \* which composition is run: "string" or "millis"
    t_str,              \* the datetime string given (t_kind = "string")
    t_ms,               \* the epoch milliseconds given (t_kind = "millis")
    t_pc,               \* "start", "done" ("off" while a pipeline runs)
    t_mid,              \* the result of the first conversion
    t_res               \* the result of the composition

VARIABLES
    pipeline,           \* the module in use: "deposits" / "withdrawals"
    pc,                 \* where the caller is: idle, params, signed, ready,
                        \* responded, returned, raised, processed ("off")
    start_time,         \* fetch_*'s arguments
    end_time,
    now_ms,             \* what int(time.time() * 1000) read
    query_params,       \* the ordered mapping, a sequence of <<key, value>>
    total_params,       \* the string that was signed
    signature,          \* the hex digest
    sent,               \* the GET requests issued so far
    response,           \* what the GET ended in
    log,                \* the logger's entries, in order
    fetched,            \* fetch_*'s result (returned value or exception)
    table               \* process_*'s result (DataFrame or exception)

tvars == <<t_copy, t_kind, t_str, t_ms, t_pc, t_mid, t_res>>

pvars == <<pipeline, pc, start_time, end_time, now_ms, query_params,
           total_params, signature, sent, response, log, fetched, table>>

vars == <<strftime_pads_year, tvars, pvars>>

-----------------------------------------------------------------------------
(* Python values *)

Ms(d, s, ms) == [d |-> d, s |-> s, ms |-> ms]

PyInt(n) == Ms(0, 0, n)

ZeroMs == Ms(0, 0, 0)

Ret(v) == [exc |-> "none", val |-> v]

Raise(e, dflt) == [exc |-> e, val |-> dflt]

DigitChar == <<"0", "1", "2", "3", "4", "5", "6", "7", "8", "9">>

Digit(n) == DigitChar[n + 1]

IsDigit(c) == \E n \in 0..9 : DigitChar[n + 1] = c

DigitVal(c) == CHOOSE n \in 0..9 : DigitChar[n + 1] = c

\* str(n) / "%d" % n for n >= 0: the decimal digits, most significant first.
RECURSIVE Dec(_)
Dec(n) == IF n < 10 THEN <<Digit(n)>> ELSE Dec(n \div 10) \o <<Digit(n % 10)>>

\* "%0wd" % n for n >= 0: zero-padded on the left to at least w characters.
RECURSIVE ZeroPad(_, _)
ZeroPad(str, w) == IF Len(str) >= w THEN str ELSE ZeroPad(<<"0">> \o str, w)

-----------------------------------------------------------------------------
(* The proleptic Gregorian calendar of datetime *)

MINYEAR == 1

DI400Y == 146097

DI100Y == 36524

DI4Y == 1461

\* date(1970, 1, 1).toordinal()
EpochOrdinal == 719163

\* date(9999, 12, 31).toordinal()
MaxOrdinal == 3652059

DAYS_IN_MONTH == <<31, 28, 31, 30, 31, 30, 31, 31, 30, 31, 30, 31>>

DAYS_BEFORE_MONTH == <<0, 31, 59, 90, 120, 151, 181, 212, 243, 273, 304, 334>>

is_leap(year) == year % 4 = 0 /\ (year % 100 # 0 \/ year % 400 = 0)

days_before_year(year) ==
    LET y == year - 1
    IN  y * 365 + (y \div 4) - (y \div 100) + (y \div 400)

days_in_month(year, month) ==
    IF month = 2 /\ is_leap(year) THEN 29 ELSE DAYS_IN_MONTH[month]

days_before_month(year, month) ==
    DAYS_BEFORE_MONTH[month] + (IF month > 2 /\ is_leap(year) THEN 1 ELSE 0)

ymd2ord(year, month, day) ==
    days_before_year(year) + days_before_month(year, month) + day

ord2ymd(ordinal) ==
    LET n0   == ordinal - 1
        n400 == n0 \div DI400Y
        r400 == n0 % DI400Y
        n100 == r400 \div DI100Y
        r100 == r400 % DI100Y
        n4   == r100 \div DI4Y
        r4   == r100 % DI4Y
        n1   == r4 \div 365
        n    == r4 % 365
        year == n400 * 400 + 1 + n100 * 100 + n4 * 4 + n1
        leapyear == n1 = 3 /\ (n4 # 24 \/ n100 = 3)
        est  == (n + 50) \div 32
        prec == DAYS_BEFORE_MONTH[est] + (IF est > 2 /\ leapyear THEN 1 ELSE 0)
        month == IF prec > n THEN est - 1 ELSE est
        preceding == IF prec > n
                     THEN prec - (DAYS_IN_MONTH[month]
                                  + (IF month = 2 /\ leapyear THEN 1 ELSE 0))
                     ELSE prec
    IN  IF n1 = 4 \/ n100 = 4
        THEN [year |-> year - 1, month |-> 12, day |-> 31]
        ELSE [year |-> year, month |-> month, day |-> n - preceding + 1]

DateTime(y, mo, d, h, mi, s) ==
    [year |-> y, month |-> mo, day |-> d, hour |-> h, minute |-> mi, second |-> s]

NoDateTime == DateTime(0, 0, 0, 0, 0, 0)

\* The datetime of a date and a time of day.
AtTime(ymd, h, mi, s) == DateTime(ymd.year, ymd.month, ymd.day, h, mi, s)

\* datetime.fromtimestamp(m / 1000.0, tz=utc), as strftime reads it: the
\* broken-down UTC time of floor(m / 1000) seconds (the microseconds, which
\* '%Y-%m-%d %H:%M:%S' never prints, are dropped); ValueError outside
\* MINYEAR..MAXYEAR.
fromtimestamp(m) ==
    LET ordinal == m.d + EpochOrdinal
    IN  IF ordinal < 1 \/ ordinal > MaxOrdinal
        THEN Raise("ValueError", NoDateTime)
        ELSE Ret(AtTime(ord2ymd(ordinal),
                        m.s \div 3600, (m.s % 3600) \div 60, m.s % 60))

\* dt.strftime('%Y-%m-%d %H:%M:%S').  %m %d %H %M %S are two digits; %Y is
\* the C library's: four digits where it zero-pads, the bare decimal
\* (three digits for the year 999) where it does not.
strftime(dt, pads) ==
    (IF pads THEN ZeroPad(Dec(dt.year), 4) ELSE Dec(dt.year))
    \o <<"-">> \o ZeroPad(Dec(dt.month), 2)
    \o <<"-">> \o ZeroPad(Dec(dt.day), 2)
    \o <<" ">> \o ZeroPad(Dec(dt.hour), 2)
    \o <<":">> \o ZeroPad(Dec(dt.minute), 2)
    \o <<":">> \o ZeroPad(Dec(dt.second), 2)

\* The length of the run of digits of str that starts at position pos.
RECURSIVE DigitRun(_, _)
DigitRun(str, pos) ==
    IF pos <= Len(str) /\ IsDigit(str[pos]) THEN 1 + DigitRun(str, pos + 1) ELSE 0

\* int(str[pos .. pos + n - 1]) for a run of at most four digits.
RECURSIVE DigitsValue(_, _, _)
DigitsValue(str, pos, n) ==
    IF n = 0 THEN 0
    ELSE DigitsValue(str, pos, n - 1) * 10 + DigitVal(str[pos + n - 1])

\* datetime.strptime(str, '%Y-%m-%d %H:%M:%S') on a string whose fields are
\* runs of digits: %Y matches exactly four digits, every other directive one
\* or two digits within its range, each separator itself, and nothing may
\* follow; the datetime constructor then refuses a day past the month's end
\* and a second past 59.  Every failure is a ValueError.
strptime(str) ==
    LET yN  == DigitRun(str, 1)
        p1  == 1 + yN
        moN == DigitRun(str, p1 + 1)
        p2  == p1 + 1 + moN
        dN  == DigitRun(str, p2 + 1)
        p3  == p2 + 1 + dN
        hN  == DigitRun(str, p3 + 1)
        p4  == p3 + 1 + hN
        miN == DigitRun(str, p4 + 1)
        p5  == p4 + 1 + miN
        sN  == DigitRun(str, p5 + 1)
        pE  == p5 + 1 + sN
        shape == /\ yN = 4
                 /\ \A n \in {moN, dN, hN, miN, sN} : n \in 1..2
                 /\ pE = Len(str) + 1
                 /\ str[p1] = "-" /\ str[p2] = "-" /\ str[p3] = " "
                 /\ str[p4] = ":" /\ str[p5] = ":"
        y   == DigitsValue(str, 1, yN)
        mo  == DigitsValue(str, p1 + 1, moN)
        d   == DigitsValue(str, p2 + 1, dN)
        h   == DigitsValue(str, p3 + 1, hN)
        mi  == DigitsValue(str, p4 + 1, miN)
        s   == DigitsValue(str, p5 + 1, sN)
    IN  IF /\ shape
           /\ y >= MINYEAR
           /\ mo \in 1..12
           /\ d \in 1..31 /\ d <= days_in_month(y, mo)
           /\ h \in 0..23 /\ mi \in 0..59 /\ s \in 0..59
        THEN Ret(DateTime(y, mo, d, h, mi, s))
        ELSE Raise("ValueError", NoDateTime)

\* int(dt.replace(tzinfo=utc).timestamp() * 1000): whole seconds since the
\* epoch, exact in a double, times 1000.
timestamp_ms(dt) ==
    Ms(ymd2ord(dt.year, dt.month, dt.day) - EpochOrdinal,
       dt.hour * 3600 + dt.minute * 60 + dt.second,
       0)

-----------------------------------------------------------------------------
(* utils.py, and the copies of its helpers in withdrawals.py *)

\* A variant: fromtimestamp without tz=utc, on a machine three hours east.
\* The 'YYYY-MM-DD HH:MM:SS' string of the datetime fromtimestamp gave, or
\* the exception it raised.
Formatted(dt) ==
    IF dt.exc # "none" THEN Raise(dt.exc, <<>>)
    ELSE Ret(strftime(dt.val, strftime_pads_year))

convert_millisec_to_datetime_localtime(millisec) ==
    LET dt == fromtimestamp(Ms(millisec.d + ((millisec.s + 10800) \div 86400),
                               (millisec.s + 10800) % 86400, millisec.ms))
    IN  IF dt.exc # "none" THEN Raise(dt.exc, <<>>)
        ELSE Ret(strftime(dt.val, strftime_pads_year))

convert_millisec_to_datetime(millisec) ==
    Formatted(fromtimestamp(millisec))

\* A variant: the format '%Y-%m-%d %H:%M' read back, the seconds lost.
convert_datetime_to_millsec_drops_seconds(datetime_val) ==
    LET dt == strptime(datetime_val)
    IN  IF dt.exc # "none" THEN Raise(dt.exc, ZeroMs)
        ELSE Ret(timestamp_ms([dt.val EXCEPT !.second = 0]))

convert_datetime_to_millsec(datetime_val) ==
    LET dt == strptime(datetime_val)
    IN  IF dt.exc # "none" THEN Raise(dt.exc, ZeroMs)
        ELSE Ret(timestamp_ms(dt.val))

withdrawals_convert_millisec_to_datetime(millisec) ==
    Formatted(fromtimestamp(millisec))

withdrawals_convert_datetime_to_millsec(datetime_val) ==
    LET dt == strptime(datetime_val)
    IN  IF dt.exc # "none" THEN Raise(dt.exc, ZeroMs)
        ELSE Ret(timestamp_ms(dt.val))

-----------------------------------------------------------------------------
(* JSON values and the cells of a DataFrame *)

VInt(m) == [t |-> "int", i |-> m, s |-> <<>>]

VStr(tokens) == [t |-> "str", i |-> ZeroMs, s |-> tokens]

\* float('nan'): what pandas puts where a record has no value.
NaN == [t |-> "nan", i |-> ZeroMs, s |-> <<>>]

\* pd.NA
NA == [t |-> "NA", i |-> ZeroMs, s |-> <<>>]

\* A datetime object (a pandas Timestamp once in a column).
VDatetime(m) == [t |-> "datetime", i |-> m, s |-> <<>>]

IsNull(v) == v.t \in {"nan", "NA"}

\* The epoch-millisecond integer sec * 1000 + ms.
EpochMs(sec, ms) == Ms(sec \div 86400, sec % 86400, ms)

\* str(v) of an f-string, for a str and for a non-negative int whose
\* seconds fit 31 bits: the decimal digits of sec * 1000 + ms.
PyStr(v) ==
    IF v.t = "int"
    THEN LET sec == v.i.d * 86400 + v.i.s
         IN  IF sec = 0 THEN Dec(v.i.ms)
             ELSE Dec(sec) \o ZeroPad(Dec(v.i.ms), 3)
    ELSE v.s

\* A raw record is a JSON object: a sequence of <<key, value>>, in the
\* order of the document.
Keys(rec) == { rec[k][1] : k \in DOMAIN rec }

Get(rec, key) == rec[CHOOSE k \in DOMAIN rec : rec[k][1] = key][2]

Has(seq, x) == \E k \in DOMAIN seq : seq[k] = x

-----------------------------------------------------------------------------
(* pandas: a DataFrame is its column labels and its rows, cell by position *)

EmptyFrame == [columns |-> <<>>, rows |-> <<>>]

\* The keys of rec that cols does not hold yet, appended in rec's order.
RECURSIVE AppendKeys(_, _)
AppendKeys(cols, rec) ==
    IF rec = <<>> THEN cols
    ELSE AppendKeys(IF Has(cols, rec[1][1]) THEN cols ELSE Append(cols, rec[1][1]),
                    Tail(rec))

RECURSIVE UnionKeys(_, _)
UnionKeys(cols, list) ==
    IF list = <<>> THEN cols
    ELSE UnionKeys(AppendKeys(cols, list[1]), Tail(list))

\* pd.DataFrame(list of dicts): the columns are the keys in the order they
\* first appear, a record without a key gets NaN there; the empty list
\* gives a frame with no column.
DataFrame(list) ==
    LET cols == UnionKeys(<<>>, list)
    IN  [columns |-> cols,
         rows |-> [r \in DOMAIN list |->
                     [c \in DOMAIN cols |->
                        IF cols[c] \in Keys(list[r]) THEN Get(list[r], cols[c])
                        ELSE NaN]]]

\* df[name] of an existing column
Column(df, name) ==
    LET c == CHOOSE k \in DOMAIN df.columns :
                 df.columns[k] = name /\ \A j \in 1..(k - 1) : df.columns[j] # name
    IN  [r \in DOMAIN df.rows |-> df.rows[r][c]]

\* df[name] = values: replaces the column where there is one, appends it
\* as the last column otherwise.
SetColumn(df, name, values) ==
    IF Has(df.columns, name)
    THEN [df EXCEPT !.rows =
            [r \in DOMAIN df.rows |->
               [c \in DOMAIN df.columns |->
                  IF df.columns[c] = name THEN values[r] ELSE df.rows[r][c]]]]
    ELSE [columns |-> Append(df.columns, name),
          rows |-> [r \in DOMAIN df.rows |-> Append(df.rows[r], values[r])]]

\* Series.map(mapping): mapping[v] for an int key of the dict, NaN for
\* everything else.
MapSeries(series, mapping) ==
    [r \in DOMAIN series |->
       LET v == series[r]
       IN  IF v.t = "int" /\ v.i.d = 0 /\ v.i.s = 0 /\ v.i.ms \in DOMAIN mapping
           THEN VStr(<<mapping[v.i.ms]>>)
           ELSE NaN]

\* df.rename(columns=mapping, inplace=True)
Rename(df, mapping) ==
    [df EXCEPT !.columns =
        [c \in DOMAIN df.columns |->
           IF df.columns[c] \in DOMAIN mapping THEN mapping[df.columns[c]]
           ELSE df.columns[c]]]

\* The positions of df's columns labelled name, from position c on.
RECURSIVE PositionsOf(_, _, _)
PositionsOf(columns, name, c) ==
    IF c > Len(columns) THEN <<>>
    ELSE (IF columns[c] = name THEN <<c>> ELSE <<>>)
         \o PositionsOf(columns, name, c + 1)

RECURSIVE SelectPositions(_, _)
SelectPositions(columns, order) ==
    IF order = <<>> THEN <<>>
    ELSE PositionsOf(columns, order[1], 1) \o SelectPositions(columns, Tail(order))

\* df[order]: KeyError when a label of order is no column of df; else the
\* columns labelled so, in order's order.
Select(df, order) ==
    IF \E k \in DOMAIN order : ~Has(df.columns, order[k])
    THEN Raise("KeyError", EmptyFrame)
    ELSE LET pos == SelectPositions(df.columns, order)
         IN  Ret([columns |-> [k \in DOMAIN pos |-> df.columns[pos[k]]],
                  rows |-> [r \in DOMAIN df.rows |->
                              [k \in DOMAIN pos |-> df.rows[r][pos[k]]]]])

\* datetime.datetime.now(datetime.timezone.utc) when the clock reads m
utc_now(m) == fromtimestamp(m).val

\* convert_millisec_to_datetime on a cell: an int converts, NaN / 1000.0 is
\* NaN, which fromtimestamp refuses, and a str cannot be divided.
\* The str cell of a returned string.
AsCell(r) == IF r.exc = "none" THEN Ret(VStr(r.val)) ELSE Raise(r.exc, NaN)

cell_to_datetime(v) ==
    IF v.t = "int"
    THEN AsCell(convert_millisec_to_datetime(v.i))
    ELSE IF v.t = "nan" THEN Raise("ValueError", NaN)
    ELSE Raise("TypeError", NaN)

\* Series.apply(convert_millisec_to_datetime): the conversion of every cell;
\* the first cell on which it raises ends the call.
ApplySeries(series) ==
    LET apply(f(_)) == [r \in DOMAIN series |-> f(series[r])]
        results     == apply(cell_to_datetime)
        bad         == {r \in DOMAIN series : results[r].exc # "none"}
    IN  IF bad # {}
        THEN Raise(results[CHOOSE r \in bad : \A q \in bad : r <= q].exc, <<>>)
        ELSE Ret([r \in DOMAIN series |-> results[r].val])


-----------------------------------------------------------------------------
(* deposits.py: process_deposits *)

\* A variant: the table without its last entry.
deposits_status_mapping_without_8 ==
    (0 :> "Pending") @@ (1 :> "Success") @@ (2 :> "Rejected")
    @@ (6 :> "Credited But Cannot Withdraw") @@ (7 :> "Wrong Deposit")

deposits_status_mapping ==
    (0 :> "Pending") @@ (1 :> "Success") @@ (2 :> "Rejected")
    @@ (6 :> "Credited But Cannot Withdraw") @@ (7 :> "Wrong Deposit")
    @@ (8 :> "Waiting User Confirm")

deposits_transfer_type_mapping ==
    (0 :> "External Transfer") @@ (1 :> "Internal Transfer")

deposits_wallet_type_mapping ==
    (0 :> "Spot Wallet") @@ (1 :> "Funding Wallet")

\* A variant: addressTag left as the provider names it.
deposits_field_mapping_without_address_tag ==
    ("txId" :> "tx_id") @@ ("transferType" :> "transfer_type")
    @@ ("confirmNo" :> "confirm_no") @@ ("walletType" :> "wallet_type")
    @@ ("unlockConfirm" :> "unlock_confirm")
    @@ ("confirmTimes" :> "confirm_times") @@ ("insertTime" :> "insert_time")

deposits_field_mapping ==
    ("txId" :> "tx_id") @@ ("transferType" :> "transfer_type")
    @@ ("confirmNo" :> "confirm_no") @@ ("walletType" :> "wallet_type")
    @@ ("addressTag" :> "address_tag") @@ ("unlockConfirm" :> "unlock_confirm")
    @@ ("confirmTimes" :> "confirm_times") @@ ("insertTime" :> "insert_time")

deposits_new_order ==
    <<"id", "tx_id", "address", "address_tag",
      "network", "coin", "amount",
      "transfer_type", "transfer_type_name",
      "wallet_type", "wallet_type_name",
      "status", "status_name",
      "confirm_times", "unlock_confirm",
      "insert_time", "insert_time_dttm", "load_dttm">>

\* process_deposits(deposits) when the clock reads clock.  Each df[...] of a
\* label that is no column raises KeyError, and ends the call there.
process_deposits(deposits, clock) ==
    LET current_utc_date == strftime(utc_now(clock), strftime_pads_year)
        df0 == DataFrame(deposits)
    IN  IF ~Has(df0.columns, "status") THEN Raise("KeyError", EmptyFrame)
        ELSE
    LET df1 == SetColumn(df0, "status_name",
                   MapSeries(Column(df0, "status"), deposits_status_mapping))
    IN  IF ~Has(df1.columns, "transferType") THEN Raise("KeyError", EmptyFrame)
        ELSE
    LET df2 == SetColumn(df1, "transfer_type_name",
                   MapSeries(Column(df1, "transferType"),
                             deposits_transfer_type_mapping))
    IN  IF ~Has(df2.columns, "walletType") THEN Raise("KeyError", EmptyFrame)
        ELSE
    LET df3 == SetColumn(df2, "wallet_type_name",
                   MapSeries(Column(df2, "walletType"),
                             deposits_wallet_type_mapping))
    IN  IF ~Has(df3.columns, "insertTime") THEN Raise("KeyError", EmptyFrame)
        ELSE
    LET dttm == ApplySeries(Column(df3, "insertTime"))
    IN  IF dttm.exc # "none" THEN Raise(dttm.exc, EmptyFrame)
        ELSE
    LET df4 == SetColumn(df3, "insert_time_dttm", dttm.val)
        df5 == SetColumn(df4, "load_dttm",
                   [r \in DOMAIN df4.rows |-> VStr(current_utc_date)])
        df6 == Rename(df5, deposits_field_mapping)
    IN  Select(df6, deposits_new_order)

-----------------------------------------------------------------------------
(* withdrawals.py: process_withdrawals *)

withdrawals_status_mapping ==
    (0 :> "Email Sent") @@ (2 :> "Awaiting Approval") @@ (3 :> "Rejected")
    @@ (4 :> "Processing") @@ (6 :> "Completed")

withdrawals_transfer_type_mapping ==
    (0 :> "External Transfer") @@ (1 :> "Internal Transfer")

withdrawals_wallet_type_mapping ==
    (0 :> "Spot Wallet") @@ (1 :> "Funding Wallet")

withdrawals_field_mapping ==
    ("transactionFee" :> "transaction_fee") @@ ("txId" :> "tx_id")
    @@ ("applyTime" :> "apply_time_dttm") @@ ("transferType" :> "transfer_type")
    @@ ("confirmNo" :> "confirm_no") @@ ("walletType" :> "wallet_type")
    @@ ("txKey" :> "tx_key") @@ ("completeTime" :> "complete_time_dttm")
    @@ ("withdrawOrderId" :> "withdraw_order_id")

withdrawals_new_order ==
    <<"id", "tx_id", "address", "tx_key",
      "network", "coin", "amount", "transaction_fee",
      "transfer_type", "transfer_type_name",
      "wallet_type", "wallet_type_name",
      "status", "status_name",
      "info", "withdraw_order_id",
      "apply_time_dttm", "complete_time_dttm", "load_dttm">>

\* The 'withdrawOrderId' not in withdrawals_df.columns branch.
synthesize_withdraw_order_id(df) ==
    IF ~Has(df.columns, "withdrawOrderId")
    THEN SetColumn(df, "withdrawOrderId", [r \in DOMAIN df.rows |-> NA])
    ELSE df

\* process_withdrawals(withdrawals) when the clock reads clock.
process_withdrawals(withdrawals, clock) ==
    LET current_utc_date == VDatetime(clock)
        df0 == DataFrame(withdrawals)
    IN  IF ~Has(df0.columns, "status") THEN Raise("KeyError", EmptyFrame)
        ELSE
    LET df1 == SetColumn(df0, "status_name",
                   MapSeries(Column(df0, "status"), withdrawals_status_mapping))
    IN  IF ~Has(df1.columns, "transferType") THEN Raise("KeyError", EmptyFrame)
        ELSE
    LET df2 == SetColumn(df1, "transfer_type_name",
                   MapSeries(Column(df1, "transferType"),
                             withdrawals_transfer_type_mapping))
    IN  IF ~Has(df2.columns, "walletType") THEN Raise("KeyError", EmptyFrame)
        ELSE
    LET df3 == SetColumn(df2, "wallet_type_name",
                   MapSeries(Column(df2, "walletType"),
                             withdrawals_wallet_type_mapping))
        df4 == SetColumn(df3, "load_dttm",
                   [r \in DOMAIN df3.rows |-> current_utc_date])
        df5 == synthesize_withdraw_order_id(df4)
        df6 == Rename(df5, withdrawals_field_mapping)
    IN  Select(df6, withdrawals_new_order)

-----------------------------------------------------------------------------
(* Signing: utils.create_total_params and its copy in withdrawals.py *)

RECURSIVE JoinParams(_)
JoinParams(q) ==
    IF q = <<>> THEN <<>>
    ELSE LET pair == <<q[1][1], "=">> \o PyStr(q[1][2])
         IN  IF Len(q) = 1 THEN pair ELSE pair \o <<"&">> \o JoinParams(Tail(q))

\* A variant: the keys sorted before joining (endTime, startTime, timestamp).
create_total_params_sorted(q) == JoinParams(<<q[2], q[1], q[3]>>)

\* '&'.join([f"{key}={value}" for key, value in query_params.items()])
create_total_params(q) == JoinParams(q)

withdrawals_create_total_params(q) == JoinParams(q)

\* hmac.new(key, msg, hashlib.sha256).hexdigest(): the digest is kept as the
\* pair it is the digest of (no two pairs share a digest).
hmac_sha256_hexdigest(key, msg) ==
    VStr(<<"hmac_sha256(", key, ",">> \o msg \o <<")">>)

-----------------------------------------------------------------------------
(* The process-wide configuration, read from the environment at import *)

API_KEY == "<API_KEY>"

API_SECRET == "<API_SECRET>"

API_LOG_NAME == "<API_LOG_NAME>"

URL(p) == IF p = "deposits" THEN "<BASE_URL><DEPOSITS_HIST_ENDPOINT>"
          ELSE "<BASE_URL><WITHDRAWAL_HIST_ENPOINT>"

-----------------------------------------------------------------------------
(* What the exchange may answer *)

\* The longest response body, in records.
MaxRecords == 2

\* The status / transferType / walletType codes the samples carry: 0..MaxCode.
MaxCode == 9

\* A deposit carrying every provider field, with the codes derived from c:
\* status c, transferType c mod 3, walletType (c div 3) mod 3; the even ones
\* carry confirmNo and sourceAddress too.
DepositRecord(c) ==
    << <<"id", VStr(<<"d", Digit(c % 10)>>)>>,
       <<"amount", VStr(<<"0.5">>)>>,
       <<"coin", VStr(<<"BTC">>)>>,
       <<"network", VStr(<<"BTC">>)>>,
       <<"status", VInt(PyInt(c))>>,
       <<"address", VStr(<<"bc1q">>)>>,
       <<"addressTag", VStr(<<"">>)>>,
       <<"txId", VStr(<<"tx", Digit(c % 10)>>)>>,
       <<"insertTime", VInt(EpochMs(1708869910 + c, 7))>>,
       <<"transferType", VInt(PyInt(c % 3))>>,
       <<"confirmTimes", VStr(<<"1/1">>)>>,
       <<"unlockConfirm", VInt(PyInt(0))>>,
       <<"walletType", VInt(PyInt((c \div 3) % 3))>> >>
    \o (IF c % 2 = 0
        THEN << <<"confirmNo", VInt(PyInt(3))>>,
                <<"sourceAddress", VStr(<<"bc1p">>)>> >>
        ELSE <<>>)

\* {"id":"1","txId":"abc","status":2,"transferType":1,"walletType":0,
\*  "insertTime":1708869910000,"address":"...","network":"ETH","coin":"ETH",
\*  "amount":"1.0"}
deposit_scenario ==
    << <<"id", VStr(<<"1">>)>>,
       <<"txId", VStr(<<"abc">>)>>,
       <<"status", VInt(PyInt(2))>>,
       <<"transferType", VInt(PyInt(1))>>,
       <<"walletType", VInt(PyInt(0))>>,
       <<"insertTime", VInt(EpochMs(1708869910, 0))>>,
       <<"address", VStr(<<"...">>)>>,
       <<"network", VStr(<<"ETH">>)>>,
       <<"coin", VStr(<<"ETH">>)>>,
       <<"amount", VStr(<<"1.0">>)>> >>

\* The same record with the three provider fields it leaves out.
deposit_scenario_full ==
    deposit_scenario
    \o << <<"addressTag", VStr(<<"">>)>>,
          <<"confirmTimes", VStr(<<"12/12">>)>>,
          <<"unlockConfirm", VInt(PyInt(0))>> >>

\* A deposit with status=1, transferType=0, walletType=1.
deposit_success ==
    << <<"id", VStr(<<"2">>)>>,
       <<"amount", VStr(<<"2.0">>)>>,
       <<"coin", VStr(<<"USDT">>)>>,
       <<"network", VStr(<<"TRX">>)>>,
       <<"status", VInt(PyInt(1))>>,
       <<"address", VStr(<<"T9y">>)>>,
       <<"addressTag", VStr(<<"">>)>>,
       <<"txId", VStr(<<"def">>)>>,
       <<"insertTime", VInt(EpochMs(1708869910, 999))>>,
       <<"transferType", VInt(PyInt(0))>>,
       <<"confirmTimes", VStr(<<"1/1">>)>>,
       <<"unlockConfirm", VInt(PyInt(0))>>,
       <<"walletType", VInt(PyInt(1))>> >>

\* A withdrawal carrying every provider field, codes derived from c as for
\* deposits; the even ones carry the optional withdrawOrderId.
WithdrawalRecord(c) ==
    << <<"id", VStr(<<"w", Digit(c % 10)>>)>>,
       <<"amount", VStr(<<"8.9">>)>>,
       <<"transactionFee", VStr(<<"0.004">>)>>,
       <<"coin", VStr(<<"USDT">>)>>,
       <<"status", VInt(PyInt(c))>>,
       <<"address", VStr(<<"0x94d">>)>>,
       <<"txId", VStr(<<"0xb5e", Digit(c % 10)>>)>>,
       <<"applyTime", VStr(<<"2019-10-12 11:12:02">>)>>,
       <<"network", VStr(<<"ETH">>)>>,
       <<"transferType", VInt(PyInt(c % 3))>> >>
    \o (IF c % 2 = 0
        THEN << <<"withdrawOrderId", VStr(<<"WITHDRAWtest", Digit(c % 10)>>)>> >>
        ELSE <<>>)
    \o << <<"info", VStr(<<"">>)>>,
          <<"confirmNo", VInt(PyInt(3))>>,
          <<"walletType", VInt(PyInt((c \div 3) % 3))>>,
          <<"txKey", VStr(<<"">>)>>,
          <<"completeTime", VStr(<<"2023-03-23 16:52:41">>)>> >>

\* A withdrawal as the endpoint answered before it had txKey and completeTime.
withdrawal_legacy ==
    << <<"id", VStr(<<"w-old">>)>>,
       <<"amount", VStr(<<"1">>)>>,
       <<"transactionFee", VStr(<<"0.1">>)>>,
       <<"coin", VStr(<<"BNB">>)>>,
       <<"status", VInt(PyInt(6))>>,
       <<"address", VStr(<<"bnb1">>)>>,
       <<"txId", VStr(<<"9f3">>)>>,
       <<"applyTime", VStr(<<"2019-09-24 12:43:45">>)>>,
       <<"network", VStr(<<"BNB">>)>>,
       <<"transferType", VInt(PyInt(0))>>,
       <<"info", VStr(<<"">>)>>,
       <<"confirmNo", VInt(PyInt(1))>>,
       <<"walletType", VInt(PyInt(1))>> >>

SampleRecords(p) ==
    IF p = "deposits"
    THEN { DepositRecord(c) : c \in 0..MaxCode }
         \cup {deposit_scenario, deposit_scenario_full, deposit_success}
    ELSE { WithdrawalRecord(c) : c \in 0..MaxCode } \cup {withdrawal_legacy}

\* The JSON arrays the endpoint of pipeline p may answer with.
Bodies(p) == UNION { [1..n -> SampleRecords(p)] : n \in 0..MaxRecords }

Statuses == {200, 201, 304, 400, 404, 429, 500, 503}

NetworkError == [kind |-> "RequestException", status |-> 0,
                 is_json |-> FALSE, body |-> <<>>]

HttpResponse(status, is_json, body) ==
    [kind |-> "response", status |-> status, is_json |-> is_json, body |-> body]

NoResponse == [kind |-> "none", status |-> 0, is_json |-> FALSE, body |-> <<>>]

\* What requests.get can end in: a network error (a RequestException), or a
\* response of some status whose body is a JSON array of records or no JSON
\* at all.  The body of a 4xx / 5xx response is never read.
Outcomes(p) ==
    {NetworkError}
    \cup { HttpResponse(st, FALSE, <<>>) : st \in Statuses }
    \cup { HttpResponse(st, TRUE, b) :
             st \in {x \in Statuses : x < 400}, b \in Bodies(p) }

StartTimes == { EpochMs(0, 0), EpochMs(1708869910, 0) }

EndTimes == { EpochMs(1709879910, 999) }

\* The readings of time.time() and of datetime.now().
Clocks == { EpochMs(1710000000, 123) }

-----------------------------------------------------------------------------
(* deposits.py: fetch_deposits, and withdrawals.py: fetch_withdrawals *)

\* A variant: only server errors raise.
raise_for_status_5xx_only(status) == 500 <= status /\ status < 600

\* response.raise_for_status() raises HTTPError for a 4xx or 5xx status.
raise_for_status(status) == 400 <= status /\ status < 600

LogEntry(level, msg) == [level |-> level, msg |-> msg]

\* str(e) of the RequestException caught
ErrorText(resp) ==
    IF resp.kind = "RequestException" THEN <<"ConnectionError">>
    ELSE Dec(resp.status) \o <<" Error">>

critical_entry(p, resp) ==
    LogEntry("critical",
             <<"ERROR: Fetching ", p, " for account ", API_LOG_NAME,
               " failed with error: ">> \o ErrorText(resp))

\* A variant: the count logged as a success even when it is zero.
result_entry_always_info(p, cnt, start_time_dt, end_time_dt) ==
    LogEntry("info",
             <<"SUCCESS: Fetched ">> \o Dec(cnt)
             \o <<" ", p, " for account ", API_LOG_NAME,
                  " in the time range from ">> \o start_time_dt
             \o <<" to ">> \o end_time_dt \o <<".">>)

\* The "Check response" branch: a warning for no record, else the count.
result_entry(p, cnt, start_time_dt, end_time_dt) ==
    IF cnt = 0
    THEN LogEntry("warning",
             <<"WARNING: For account ", API_LOG_NAME, ", there are NO ", p,
               " in the time range from ">> \o start_time_dt
             \o <<" to ">> \o end_time_dt \o <<".">>)
    ELSE LogEntry("info",
             <<"SUCCESS: Fetched ">> \o Dec(cnt)
             \o <<" ", p, " for account ", API_LOG_NAME,
                  " in the time range from ">> \o start_time_dt
             \o <<" to ">> \o end_time_dt \o <<".">>)

\* query_params = {'startTime': ..., 'endTime': ..., 'timestamp': ...}
build_query_params(start, end, now) ==
    << <<"startTime", VInt(start)>>,
       <<"endTime", VInt(end)>>,
       <<"timestamp", VInt(now)>> >>

\* query_params['signature'] = signature: a new key goes last.
add_signature(q, sig) == Append(q, <<"signature", sig>>)

\* The call begins: the arguments are bound, the headers and the query
\* parameters are built.
fetch_build_params ==
    /\ pc = "idle"
    /\ \E s \in StartTimes, e \in EndTimes, n \in Clocks :
          /\ start_time' = s
          /\ end_time' = e
          /\ now_ms' = n
          /\ query_params' = build_query_params(s, e, n)
    /\ pc' = "params"
    /\ UNCHANGED <<strftime_pads_year, tvars, pipeline, total_params, signature,
                   sent, response, log, fetched, table>>

\* total_params = create_total_params(query_params); signature = hmac...
fetch_sign ==
    /\ pc = "params"
    /\ LET tp == IF pipeline = "deposits" THEN create_total_params(query_params)
                 ELSE withdrawals_create_total_params(query_params)
       IN  /\ total_params' = tp
           /\ signature' = hmac_sha256_hexdigest(API_SECRET, tp)
    /\ pc' = "signed"
    /\ UNCHANGED <<strftime_pads_year, tvars, pipeline, start_time, end_time,
                   now_ms, query_params, sent, response, log, fetched, table>>

fetch_add_signature ==
    /\ pc = "signed"
    /\ query_params' = add_signature(query_params, signature)
    /\ pc' = "ready"
    /\ UNCHANGED <<strftime_pads_year, tvars, pipeline, start_time, end_time,
                   now_ms, total_params, signature, sent, response, log,
                   fetched, table>>

\* The try block and its except clause: one GET; a RequestException, from
\* requests.get or from raise_for_status, is logged and [] is returned.
fetch_request ==
    /\ pc = "ready"
    /\ sent' = Append(sent, [url |-> URL(pipeline),
                             headers |-> << <<"X-MBX-APIKEY", API_KEY>> >>,
                             params |-> query_params])
    /\ \E outcome \in Outcomes(pipeline) :
          /\ response' = outcome
          /\ IF outcome.kind = "RequestException"
                \/ raise_for_status(outcome.status)
             THEN /\ log' = Append(log, critical_entry(pipeline, outcome))
                  /\ fetched' = Ret(<<>>)
                  /\ pc' = "returned"
             ELSE /\ pc' = "responded"
                  /\ UNCHANGED <<log, fetched>>
    /\ UNCHANGED <<strftime_pads_year, tvars, pipeline, start_time, end_time,
                   now_ms, query_params, total_params, signature, table>>

\* After the try block: response.json(), the count, the two readable times,
\* the log entry, the return.  response.json() raises on a body that is no
\* JSON, outside the try block.
fetch_parse ==
    /\ pc = "responded"
    /\ LET start_time_dt ==
               IF pipeline = "deposits"
               THEN convert_millisec_to_datetime(start_time)
               ELSE withdrawals_convert_millisec_to_datetime(start_time)
           end_time_dt ==
               IF pipeline = "deposits"
               THEN convert_millisec_to_datetime(end_time)
               ELSE withdrawals_convert_millisec_to_datetime(end_time)
       IN  IF ~response.is_json
           THEN /\ fetched' = Raise("JSONDecodeError", <<>>)
                /\ pc' = "raised"
                /\ UNCHANGED log
           ELSE IF start_time_dt.exc # "none" \/ end_time_dt.exc # "none"
           THEN /\ fetched' = Raise("ValueError", <<>>)
                /\ pc' = "raised"
                /\ UNCHANGED log
           ELSE /\ log' = Append(log, result_entry(pipeline, Len(response.body),
                                                   start_time_dt.val,
                                                   end_time_dt.val))
                /\ fetched' = Ret(response.body)
                /\ pc' = "returned"
    /\ UNCHANGED <<strftime_pads_year, tvars, pipeline, start_time, end_time,
                   now_ms, query_params, total_params, signature, sent, response,
                   table>>

\* The caller hands what fetch_* returned to process_*.
process ==
    /\ pc = "returned"
    /\ \E clock \in Clocks :
          table' = IF pipeline = "deposits"
                   THEN process_deposits(fetched.val, clock)
                   ELSE process_withdrawals(fetched.val, clock)
    /\ pc' = "processed"
    /\ UNCHANGED <<strftime_pads_year, tvars, pipeline, start_time, end_time,
                   now_ms, query_params, total_params, signature, sent, response,
                   log, fetched>>

TimeOff ==
    /\ t_copy = "utils" /\ t_kind = "string" /\ t_str = <<>> /\ t_ms = ZeroMs
    /\ t_pc = "off" /\ t_mid = Ret(<<>>) /\ t_res = Ret(<<>>)

PipelineAt(p, where) ==
    /\ pipeline = p
    /\ pc = where
    /\ start_time = ZeroMs /\ end_time = ZeroMs /\ now_ms = ZeroMs
    /\ query_params = <<>>
    /\ total_params = <<>>
    /\ signature = VStr(<<>>)
    /\ sent = <<>>
    /\ response = NoResponse
    /\ log = <<>>
    /\ fetched = Ret(<<>>)
    /\ table = Ret(EmptyFrame)

\* After import: the configuration is read, nothing has been called.
Init ==
    /\ strftime_pads_year \in BOOLEAN
    /\ \E p \in {"deposits", "withdrawals"} : PipelineAt(p, "idle")
    /\ TimeOff

Next ==
    \/ fetch_build_params
    \/ fetch_sign
    \/ fetch_add_signature
    \/ fetch_request
    \/ fetch_parse
    \/ process

Spec == Init /\ [][Next]_vars

-----------------------------------------------------------------------------
(* The helpers called on their own: the two compositions *)

ToDatetime(copy, m) ==
    IF copy = "utils" THEN convert_millisec_to_datetime(m)
    ELSE withdrawals_convert_millisec_to_datetime(m)

ToMillsec(copy, str) ==
    IF copy = "utils" THEN convert_datetime_to_millsec(str)
    ELSE withdrawals_convert_datetime_to_millsec(str)

\* The 'YYYY-MM-DD HH:MM:SS' text of six fields, zero-padded to 4-2-2 2:2:2.
DatetimeText(y, mo, d, h, mi, s) ==
    ZeroPad(Dec(y), 4) \o <<"-">> \o ZeroPad(Dec(mo), 2) \o <<"-">>
    \o ZeroPad(Dec(d), 2) \o <<" ">> \o ZeroPad(Dec(h), 2) \o <<":">>
    \o ZeroPad(Dec(mi), 2) \o <<":">> \o ZeroPad(Dec(s), 2)

SampleYears == {1, 999, 1000, 1969, 1970, 2024, 9999}

SampleMonths == {1, 2, 12}

SampleDays == {1, 28, 29, 31}

SampleHours == {0, 23}

SampleMinutes == {0, 59}

SampleSeconds == {0, 59}

SampleFields ==
    [y : SampleYears, mo : SampleMonths, d : SampleDays,
     h : SampleHours, mi : SampleMinutes, s : SampleSeconds]

\* The strings handed to convert_datetime_to_millsec: every combination of
\* the sample fields, the dates no calendar has (02-31, 02-29 of 1969) included.
SampleStrings ==
    { DatetimeText(f.y, f.mo, f.d, f.h, f.mi, f.s) : f \in SampleFields }

\* A string is a valid 'YYYY-MM-DD HH:MM:SS' datetime when it is the
\* zero-padded text of a date of the calendar and a time of the day.
ValidStrings ==
    { DatetimeText(f.y, f.mo, f.d, f.h, f.mi, f.s) :
        f \in { g \in SampleFields : g.d <= days_in_month(g.y, g.mo) } }

SampleEpochDays ==
    { ymd2ord(y, mo, 1) - EpochOrdinal + k :
        y \in SampleYears, mo \in SampleMonths, k \in {0, 27} }
    \cup { 0 - EpochOrdinal, MaxOrdinal - EpochOrdinal + 1 }

SampleMillis ==
    { Ms(d, s, ms) : d \in SampleEpochDays,
                     s \in {0, 50710, 86399}, ms \in {0, 1, 999} }

InRange(m) == m.d + EpochOrdinal \in 1..MaxOrdinal

TimeInit ==
    /\ strftime_pads_year \in BOOLEAN
    /\ t_copy \in {"utils", "withdrawals"}
    /\ t_kind \in {"string", "millis"}
    /\ t_pc = "start"
    /\ \/ t_kind = "string" /\ t_str \in SampleStrings /\ t_ms = ZeroMs
       \/ t_kind = "millis" /\ t_ms \in SampleMillis /\ t_str = <<>>
    /\ t_mid = Ret(<<>>)
    /\ t_res = Ret(<<>>)
    /\ PipelineAt("deposits", "off")

\* convert_millisec_to_datetime(convert_datetime_to_millsec(s))
StringRoundTrip ==
    /\ t_kind = "string" /\ t_pc = "start"
    /\ LET mid == ToMillsec(t_copy, t_str)
       IN  /\ t_mid' = mid
           /\ t_res' = IF mid.exc # "none" THEN Raise(mid.exc, <<>>)
                        ELSE ToDatetime(t_copy, mid.val)
    /\ t_pc' = "done"
    /\ UNCHANGED <<strftime_pads_year, t_copy, t_kind, t_str, t_ms, pvars>>

\* convert_datetime_to_millsec(convert_millisec_to_datetime(m))
MillisRoundTrip ==
    /\ t_kind = "millis" /\ t_pc = "start"
    /\ LET mid == ToDatetime(t_copy, t_ms)
       IN  /\ t_mid' = mid
           /\ t_res' = IF mid.exc # "none" THEN Raise(mid.exc, ZeroMs)
                        ELSE ToMillsec(t_copy, mid.val)
    /\ t_pc' = "done"
    /\ UNCHANGED <<strftime_pads_year, t_copy, t_kind, t_str, t_ms, pvars>>

TimeNext == StringRoundTrip \/ MillisRoundTrip

SpecTime == TimeInit /\ [][TimeNext]_vars

-----------------------------------------------------------------------------
(* Vocabulary of the properties *)

\* fetch_* has ended, by returning or by raising.
FetchDone == pc \in {"returned", "raised", "processed"}

Is2xx == response.kind = "response" /\ response.status \in 200..299

Levels == [k \in DOMAIN log |-> log[k].level]

ParamKeys(q) == [k \in DOMAIN q |-> q[k][1]]

\* The cell of row r in the column labelled name.
Cell(df, r, name) ==
    df.rows[r][CHOOSE c \in DOMAIN df.columns : df.columns[c] = name]

DepositColumns ==
    <<"id", "tx_id", "address", "address_tag", "network", "coin", "amount",
      "transfer_type", "transfer_type_name", "wallet_type", "wallet_type_name",
      "status", "status_name", "confirm_times", "unlock_confirm",
      "insert_time", "insert_time_dttm", "load_dttm">>

WithdrawalColumns ==
    <<"id", "tx_id", "address", "tx_key", "network", "coin", "amount",
      "transaction_fee", "transfer_type", "transfer_type_name",
      "wallet_type", "wallet_type_name", "status", "status_name", "info",
      "withdraw_order_id", "apply_time_dttm", "complete_time_dttm", "load_dttm">>

\* The provider fields the deposits normalizer reads, with the column each
\* ends in.
DepositFields ==
    << <<"id", "id">>, <<"txId", "tx_id">>, <<"address", "address">>,
       <<"addressTag", "address_tag">>, <<"network", "network">>,
       <<"coin", "coin">>, <<"amount", "amount">>,
       <<"transferType", "transfer_type">>, <<"walletType", "wallet_type">>,
       <<"status", "status">>, <<"confirmTimes", "confirm_times">>,
       <<"unlockConfirm", "unlock_confirm">>, <<"insertTime", "insert_time">> >>

\* The fields the withdrawals normalizer reads, withdrawOrderId aside.
WithdrawalFields ==
    {"id", "txId", "address", "txKey", "network", "coin", "amount",
     "transactionFee", "transferType", "walletType", "status", "info",
     "applyTime", "completeTime"}

CarriesAll(list, fields) ==
    \A k \in DOMAIN list : fields \subseteq Keys(list[k])

WellFormed(p, list) ==
    IF p = "deposits"
    THEN CarriesAll(list, {DepositFields[k][1] : k \in DOMAIN DepositFields})
    ELSE CarriesAll(list, WithdrawalFields)

\* The lookup tables as the specification states them.
DepositStatusNames ==
    (0 :> "Pending") @@ (1 :> "Success") @@ (2 :> "Rejected")
    @@ (6 :> "Credited But Cannot Withdraw") @@ (7 :> "Wrong Deposit")
    @@ (8 :> "Waiting User Confirm")

WithdrawalStatusNames ==
    (0 :> "Email Sent") @@ (2 :> "Awaiting Approval") @@ (3 :> "Rejected")
    @@ (4 :> "Processing") @@ (6 :> "Completed")

TransferTypeNames == (0 :> "External Transfer") @@ (1 :> "Internal Transfer")

WalletTypeNames == (0 :> "Spot Wallet") @@ (1 :> "Funding Wallet")

\* lookup(code): the label of a code of the table, a null for any other.
LabelIs(cell, names, raw) ==
    IF raw.i.ms \in DOMAIN names THEN cell = VStr(<<names[raw.i.ms]>>)
    ELSE IsNull(cell)

-----------------------------------------------------------------------------
(* Properties of the pipelines (specification Spec) *)

\* What C1 calls a failure, as the code decides it: a network error, or a
\* status raise_for_status raises for (4xx, 5xx).
FetchFailed ==
    \/ response.kind = "RequestException"
    \/ response.kind = "response" /\ response.status \in 400..599

FailedSoftly ==
    /\ fetched = Ret(<<>>)
    /\ Levels = <<"critical">>
    /\ Len(sent) = 1

\* C1 (amended): if the single GET ends in a network error or a 4xx / 5xx
\* status, the call logs one critical entry, returns the empty sequence and
\* raises nothing; a call issues one request and never a second.
C1_FailSoft ==
    /\ Len(sent) <= 1
    /\ (FetchDone /\ FetchFailed) => FailedSoftly

\* C1 as stated: the same of every non-2xx status.
C1_AnyNon2xx ==
    (FetchDone /\ (response.kind = "RequestException" \/ ~Is2xx)) => FailedSoftly

C1_Witness ==
    /\ pc = "returned" /\ response.status = 404
    /\ FailedSoftly

InfoCarries(entry, n) ==
    /\ entry.msg[1] = "SUCCESS: Fetched "
    /\ SubSeq(entry.msg, 2, 1 + Len(Dec(n))) = Dec(n)
    /\ entry.msg[2 + Len(Dec(n))] = " "

ThreePaths ==
    /\ (response.kind = "RequestException" \/ response.status = 500)
         => fetched = Ret(<<>>) /\ Levels = <<"critical">>
    /\ (Is2xx /\ response.is_json /\ response.body = <<>>)
         => fetched = Ret(<<>>) /\ Levels = <<"warning">>
    /\ (Is2xx /\ response.is_json /\ response.body # <<>>)
         => /\ fetched = Ret(response.body)
            /\ Levels = <<"info">>
            /\ InfoCarries(log[1], Len(response.body))

\* C2 (amended): a failed fetch returns empty with one critical entry only,
\* a 2xx fetch of no record returns empty with one warning only, a 2xx
\* fetch of n > 0 records returns them with one info entry carrying n;
\* every call that returns emits exactly one entry, and a call whose
\* response body is no JSON raises and emits none.
C2_LogsTellPaths ==
    FetchDone =>
        /\ ThreePaths
        /\ fetched.exc = "none" => Len(log) = 1
        /\ fetched.exc # "none" => log = <<>> /\ ~response.is_json

\* C2 as stated: every fetch call emits exactly one of the three.
C2_EveryCallLogsOnce ==
    FetchDone => ThreePaths /\ Len(log) = 1

C2_Witness ==
    /\ pc = "returned" /\ response.status = 200 /\ Len(response.body) = 2
    /\ Levels = <<"info">>

\* C3: the signed string is startTime=<start>&endTime=<end>&timestamp=<now>
\* in that order; it is signed while the mapping holds those three keys
\* only, and the request carries the four keys with signature last.
C3_SignedString ==
    /\ pc \in {"params", "signed"}
         => ParamKeys(query_params) = <<"startTime", "endTime", "timestamp">>
    /\ pc \notin {"idle", "params"}
         => /\ total_params =
                 <<"startTime", "=">> \o PyStr(VInt(start_time))
                 \o <<"&", "endTime", "=">> \o PyStr(VInt(end_time))
                 \o <<"&", "timestamp", "=">> \o PyStr(VInt(now_ms))
            /\ ~Has(total_params, "signature")
            /\ signature = hmac_sha256_hexdigest(API_SECRET, total_params)
    /\ Len(sent) = 1
         => /\ ParamKeys(sent[1].params)
                 = <<"startTime", "endTime", "timestamp", "signature">>
            /\ sent[1].params[1][2] = VInt(start_time)
            /\ sent[1].params[2][2] = VInt(end_time)
            /\ sent[1].params[3][2] = VInt(now_ms)
            /\ sent[1].params[4][2] = signature

C3_Witness ==
    /\ Len(sent) = 1 /\ pipeline = "deposits"
    /\ start_time = EpochMs(1708869910, 0)
    /\ SubSeq(total_params, 1, 15)
         = <<"startTime", "=", "1", "7", "0", "8", "8", "6", "9", "9", "1",
             "0", "0", "0", "0">>
    /\ sent[1].params[4][1] = "signature"

CarriesCodes(list) ==
    /\ list # <<>>
    /\ CarriesAll(list, {"status", "transferType", "walletType"})

\* C4: for a non-empty sequence of records carrying the three codes, every
\* output row has the labels their lookups give (a null for a code outside
\* the table), and no code makes the call fail: records with every field
\* always give a table.  status=1, transferType=0, walletType=1 of a deposit
\* give Success, External Transfer, Funding Wallet.
C4_Labels ==
    (pc = "processed" /\ CarriesCodes(fetched.val)) =>
        /\ WellFormed(pipeline, fetched.val) => table.exc = "none"
        /\ table.exc = "none" =>
             /\ Len(table.val.rows) = Len(fetched.val)
             /\ \A r \in DOMAIN fetched.val :
                  /\ LabelIs(Cell(table.val, r, "status_name"),
                             IF pipeline = "deposits" THEN DepositStatusNames
                             ELSE WithdrawalStatusNames,
                             Get(fetched.val[r], "status"))
                  /\ LabelIs(Cell(table.val, r, "transfer_type_name"),
                             TransferTypeNames,
                             Get(fetched.val[r], "transferType"))
                  /\ LabelIs(Cell(table.val, r, "wallet_type_name"),
                             WalletTypeNames,
                             Get(fetched.val[r], "walletType"))
        /\ (pipeline = "deposits" /\ fetched.val = <<deposit_success>>) =>
             /\ Cell(table.val, 1, "status_name") = VStr(<<"Success">>)
             /\ Cell(table.val, 1, "transfer_type_name")
                  = VStr(<<"External Transfer">>)
             /\ Cell(table.val, 1, "wallet_type_name")
                  = VStr(<<"Funding Wallet">>)

C4_Witness ==
    /\ pc = "processed" /\ pipeline = "deposits"
    /\ fetched.val = <<deposit_success, DepositRecord(5)>>
    /\ table.exc = "none"
    /\ Cell(table.val, 1, "status_name") = VStr(<<"Success">>)
    /\ IsNull(Cell(table.val, 2, "status_name"))

\* C5: for every sequence of withdrawals none of which has withdrawOrderId
\* (every other field present), process_withdrawals returns the 19 columns
\* with withdraw_order_id null in every row.
C5_OrderIdSynthesized ==
    ( /\ pc = "processed" /\ pipeline = "withdrawals"
      /\ WellFormed(pipeline, fetched.val)
      /\ \A k \in DOMAIN fetched.val : "withdrawOrderId" \notin Keys(fetched.val[k]) )
    => /\ table.exc = "none"
       /\ table.val.columns = WithdrawalColumns
       /\ Len(table.val.rows) = Len(fetched.val)
       /\ \A r \in DOMAIN table.val.rows :
            IsNull(Cell(table.val, r, "withdraw_order_id"))

ScenarioRow(dttm) ==
    /\ table.exc = "none"
    /\ Len(table.val.rows) = 1
    /\ table.val.columns = DepositColumns
    /\ Cell(table.val, 1, "status_name") = VStr(<<"Rejected">>)
    /\ Cell(table.val, 1, "transfer_type_name") = VStr(<<"Internal Transfer">>)
    /\ Cell(table.val, 1, "wallet_type_name") = VStr(<<"Spot Wallet">>)
    /\ Cell(table.val, 1, "insert_time_dttm") = VStr(dttm)

C7_Columns ==
    (pc = "processed" /\ pipeline = "deposits" /\ fetched.val # <<>>
     /\ WellFormed(pipeline, fetched.val)) =>
        /\ table.exc = "none"
        /\ table.val.columns = DepositColumns
        /\ Len(table.val.rows) = Len(fetched.val)
        /\ \A r \in DOMAIN fetched.val : \A k \in DOMAIN DepositFields :
             Cell(table.val, r, DepositFields[k][2])
               = Get(fetched.val[r], DepositFields[k][1])

C7_Witness ==
    /\ pc = "processed" /\ pipeline = "deposits"
    /\ fetched.val = <<DepositRecord(0), deposit_success>>
    /\ "confirmNo" \in Keys(fetched.val[1])
    /\ table.exc = "none"
    /\ ~Has(table.val.columns, "confirm_no")

\* C10: for every fetch outcome (failure, 2xx with no record, 2xx with
\* well-formed records) process_* of what fetch_* returned gives a table
\* with the pipeline's fixed columns.
C10_Composes ==
    ( /\ pc = "processed"
      /\ \/ FetchFailed
         \/ Is2xx /\ WellFormed(pipeline, response.body) )
    => /\ table.exc = "none"
       /\ table.val.columns = (IF pipeline = "deposits" THEN DepositColumns
                               ELSE WithdrawalColumns)

-----------------------------------------------------------------------------
(* Properties of the time helpers (specification SpecTime) *)

\* C8: for every valid 'YYYY-MM-DD HH:MM:SS' string s, of both copies,
\* convert_millisec_to_datetime(convert_datetime_to_millsec(s)) = s.
C8_StringRoundTrip ==
    (t_pc = "done" /\ t_kind = "string" /\ t_str \in ValidStrings)
        => t_res = Ret(t_str)

\* The epoch milliseconds m fall in a year before 1000.
BeforeYear1000(m) == m.d + EpochOrdinal < ymd2ord(1000, 1, 1)

\* C9 (amended): for every epoch-millisecond integer m of the years
\* 1..9999 the composition returns m rounded down to a whole second, so m
\* itself exactly when m is a multiple of 1000; where strftime does not
\* zero-pad the year, an m before the year 1000 raises ValueError instead.
C9_RoundsDownToSecond ==
    (t_pc = "done" /\ t_kind = "millis" /\ InRange(t_ms)) =>
        /\ t_mid.exc = "none"
        /\ IF BeforeYear1000(t_ms) /\ ~strftime_pads_year
           THEN t_res.exc = "ValueError"
           ELSE t_res = Ret(Ms(t_ms.d, t_ms.s, 0))

\* C9 as stated: the composition returns m.
C9_MillisRoundTrip ==
    (t_pc = "done" /\ t_kind = "millis" /\ InRange(t_ms)) => t_res = Ret(t_ms)

C9_Witness ==
    /\ t_pc = "done" /\ t_kind = "millis"
    /\ t_ms.ms = 999 /\ t_ms.s = 50710
    /\ t_res = Ret(Ms(t_ms.d, 50710, 0))

=============================================================================
